---- MODULE Spec2Model ----
(***************************************************************************)
(* Simple RPC transport: the multiplexed client (src/src/bin/client.rs)    *)
(* and the two-phase server dispatcher (src/src/bin/server.rs) over the    *)
(* length-prefixed frame codec (src/src/lib.rs).                           *)
(*                                                                         *)
(* The client, the server and the codec on a stream are modelled as three  *)
(* state machines over disjoint variables; each has its own specification. *)
(***************************************************************************)
EXTENDS Integers, Sequences, FiniteSets, TLC

\* ------------------------------------------------------------------ bounds
\* Number of call() invocations on one client connection.
NCalls == 2
\* Number of frames the client receive loop reads before the environment
\* stops producing frames.
MaxFrames == 3
\* Number of request frames the server read loop decodes on one connection.
MaxReqs == 2
\* Number of documents written to one stream with write_frame.
MaxDocs == 2
\* The number of values of the frame length field. The field is a u32 (2^32
\* values), beyond the integers of the model checker; the model keeps the
\* wrap-around of the cast at a smaller modulus, and its long payload is one
\* of at least this many bytes.
U32Modulus == 32

\* ------------------------------------------------------------------ client state
VARIABLES
    callPc,     \* call(): position of each invocation
    pending,    \* PendingMap: request id -> the call whose channel the sender feeds
    chan,       \* the mpsc channel of each call: responses sent, not yet received
    ret,        \* what each call() returned
    retFrom,    \* history: the Response a returned call consumed last
    writer,     \* the Mutex<TcpStream>: "free", "reader" or the call holding it
    readerPc,   \* the spawned receive task's position
    cur,        \* the Response the receive task has decoded and is routing
    nframes,    \* frames read so far by the receive task
    sent,       \* request ids whose frame was written to the socket, in order
    wbuf,       \* per call: the bytes of its frame write_all has still to write
    sock,       \* history: the bytes written to the socket, each with its writer
    delivered,  \* history: every Response a waiter's channel accepted, in order
    atFail      \* history: the registry's ids when read_frame failed

clientVars == <<callPc, pending, chan, ret, retFrom, writer, readerPc, cur,
                nframes, sent, wbuf, sock, delivered, atFail>>

\* ------------------------------------------------------------------ server state
VARIABLES
    rdPc,       \* handle_client's read loop: "read", or "ended" once it returned
    rdRet,      \* what handle_client returned: "none" while it runs, then its Err
    reqs,       \* the RpcRequests decoded so far, in the order read
    hstate,     \* the task spawned for each decoded request: "running" or "done"
    outq,       \* the unbounded channel: frames sent and not yet received
    wrPc,       \* the writer task: "recv", "write", "stopped" (Ok) or "failed" (Err)
    wrBuf,      \* the bytes of the frame write_all has still to write
    wire,       \* the bytes written to the socket's write half, in order
    enq,        \* history: every frame the channel accepted, in order
    endedAt     \* history: how many frames the channel had accepted when
                \* handle_client returned

serverVars == <<rdPc, rdRet, reqs, hstate, outq, wrPc, wrBuf, wire, enq, endedAt>>

\* ------------------------------------------------------------------ codec state
VARIABLES
    cin,        \* the documents given to write_frame on a stream, in order
    cstream,    \* the bytes written to the stream and not yet read
    ceof,       \* the writing side of the stream was shut down
    cout        \* what the read_frame calls on the stream returned, in order

codecVars == <<cin, cstream, ceof, cout>>

vars == <<clientVars, serverVars, codecVars>>

Calls == 1..NCalls

\* call(): request_id = Uuid::new_v4().to_string(): distinct per invocation.
RequestId(c) == ToString(c)

\* Ids a received Response may carry: every call's id and one id no call owns.
WireIds == {ToString(i) : i \in 0..NCalls}

Null == "null"
NoFrame == [status |-> "none"]

\* The result document the server computed for the request with this id.
ResultOf(id) == "result-" \o id

\* RpcResponse values, as client.rs matches them.
Accepted(id) == [status |-> "accepted", request_id |-> id, ok |-> TRUE,
                 result |-> Null, error |-> Null]
Completed(id, ok, result, error) ==
    [status |-> "completed", request_id |-> id, ok |-> ok,
     result |-> result, error |-> error]
ErrorResp(id, msg) == [status |-> "error", request_id |-> id, ok |-> FALSE,
                       result |-> Null, error |-> msg]

\* The synthetic Response the receive task sends to every waiter on a read error.
ConnectionClosed == ErrorResp("", "connection closed")

\* A JSON document that serde_json::from_value does not accept as an RpcResponse.
NotAResponse == [status |-> "other"]

IsResponse(f) == f.status \in {"accepted", "completed", "error"}

\* The terminal responses: Completed and Error.
IsTerminal(resp) == resp.status \in {"completed", "error"}

\* The frames a peer can put on the client's socket; result and error of a
\* Completed are Options, and either may be absent.
ResponseFrames ==
    UNION { { Accepted(id),
              Completed(id, TRUE, ResultOf(id), Null),
              Completed(id, TRUE, Null, Null),
              Completed(id, FALSE, Null, "failed"),
              Completed(id, FALSE, Null, Null),
              ErrorResp(id, "failed") } : id \in WireIds }

AllFrames == ResponseFrames \cup {NotAResponse}

Returned == {"done_ok", "done_err"}

\* The receiving half of a call's channel lives in call()'s frame: it is dropped
\* when call() returns, and UnboundedSender::send then fails.
RxAlive(c) == callPc[c] \notin Returned

ClientInit ==
    /\ callPc = [c \in Calls |-> "idle"]
    /\ pending = <<>>
    /\ chan = [c \in Calls |-> <<>>]
    /\ ret = [c \in Calls |-> Null]
    /\ retFrom = [c \in Calls |-> NoFrame]
    /\ writer = "free"
    /\ readerPc = "start"
    /\ cur = NoFrame
    /\ nframes = 0
    /\ sent = <<>>
    /\ wbuf = [c \in Calls |-> <<>>]
    /\ sock = <<>>
    /\ delivered = [c \in Calls |-> <<>>]
    /\ atFail = {}

\* ------------------------------------------------------------------ frame codec
\* serde_json::to_vec of a request or response document, abbreviated to one byte
\* per field: a tag for the kind, the request id, and the fields the variant
\* carries. The connections need the frames' boundaries and what each frame is, not
\* its JSON text; to_vec below gives the text of a document.
StatusByte(st) ==
    CASE st = "request" -> 0 [] st = "accepted" -> 1 [] st = "completed" -> 2
      [] OTHER -> 3

IdByte(id) == CHOOSE b \in 0..255 : ToString(b) = id

ToVec(msg) ==
    CASE msg.status = "request" -> <<StatusByte(msg.status), IdByte(msg.request_id)>>
      [] msg.status = "accepted" -> <<StatusByte(msg.status), IdByte(msg.request_id)>>
      [] msg.status = "completed" ->
            <<StatusByte(msg.status), IdByte(msg.request_id),
              IF msg.ok THEN 1 ELSE 0, IF msg.result = Null THEN 0 ELSE 1>>
      [] OTHER -> <<StatusByte(msg.status), IdByte(msg.request_id), 0>>

\* buf.put_u32(n): four bytes, big-endian
PutU32(n) ==
    <<(n \div 16777216) % 256, (n \div 65536) % 256, (n \div 256) % 256, n % 256>>

\* bytes.len() as u32: the cast keeps the low bits of the length
CastU32(n) == n % U32Modulus

\* write_frame: put_u32(bytes.len() as u32), then the payload
FrameBytes(msg) ==
    LET bytes == ToVec(msg) IN PutU32(CastU32(Len(bytes))) \o bytes

\* u32::from_be_bytes
GetU32(b) == b[1] * 16777216 + b[2] * 65536 + b[3] * 256 + b[4]

\* ------------------------------------------------------------------ JSON documents
\* serde_json::Value: null, booleans, numbers (integers here), strings (sequences
\* of character codes), arrays, and objects (maps from keys to values).
JNull == [t |-> "null", v |-> <<>>]
JBool(b) == [t |-> "bool", v |-> b]
JNum(n) == [t |-> "num", v |-> n]
JStr(s) == [t |-> "str", v |-> s]
JArr(es) == [t |-> "arr", v |-> es]
JObj(f) == [t |-> "obj", v |-> f]

\* The decimal digits of a natural number.
RECURSIVE Digits(_)
Digits(n) == IF n < 10 THEN <<48 + n>> ELSE Digits(n \div 10) \o <<48 + (n % 10)>>

\* The characters of a string, with a backslash before a quote or a backslash.
RECURSIVE Escaped(_)
Escaped(s) ==
    IF s = <<>> THEN <<>>
    ELSE (IF Head(s) \in {34, 92} THEN <<92, Head(s)>> ELSE <<Head(s)>>)
         \o Escaped(Tail(s))

Quoted(s) == <<34>> \o Escaped(s) \o <<34>>

\* The order of the keys of a Map (a BTreeMap<String, Value>).
KeyLess(a, b) ==
    \E i \in 1..(Len(a) + 1) :
        /\ i <= Len(b)
        /\ \A j \in 1..(i - 1) : a[j] = b[j]
        /\ (i = Len(a) + 1 \/ a[i] < b[i])

RECURSIVE SortedKeys(_)
SortedKeys(ks) ==
    IF ks = {} THEN <<>>
    ELSE LET k == CHOOSE x \in ks : \A y \in ks \ {x} : KeyLess(x, y)
         IN <<k>> \o SortedKeys(ks \ {k})

\* serde_json::to_vec(v): the compact JSON text of a document
RECURSIVE to_vec(_)
RECURSIVE JoinElems(_)
RECURSIVE JoinMembers(_, _)
JoinElems(es) ==
    IF es = <<>> THEN <<>>
    ELSE to_vec(Head(es))
         \o (IF Tail(es) = <<>> THEN <<>> ELSE <<44>> \o JoinElems(Tail(es)))

JoinMembers(f, ks) ==
    IF ks = <<>> THEN <<>>
    ELSE Quoted(Head(ks)) \o <<58>> \o to_vec(f[Head(ks)])
         \o (IF Tail(ks) = <<>> THEN <<>> ELSE <<44>> \o JoinMembers(f, Tail(ks)))

to_vec(d) ==
    CASE d.t = "null" -> <<110, 117, 108, 108>>
      [] d.t = "bool" -> IF d.v THEN <<116, 114, 117, 101>>
                                ELSE <<102, 97, 108, 115, 101>>
      [] d.t = "num" -> IF d.v < 0 THEN <<45>> \o Digits(0 - d.v) ELSE Digits(d.v)
      [] d.t = "str" -> Quoted(d.v)
      [] d.t = "arr" -> <<91>> \o JoinElems(d.v) \o <<93>>
      [] OTHER -> <<123>> \o JoinMembers(d.v, SortedKeys(DOMAIN d.v)) \o <<125>>

\* Deserializer::remaining_depth at the start of from_slice, which does not
\* disable the check. serde_json starts at 128; the model starts lower, so that
\* the documents at the limit stay small.
RecursionLimit == 4

\* What a parsing step returns: the value and the bytes after it, or a failure.
Parsed(val, rest) == [ok |-> TRUE, val |-> val, rest |-> rest]
ParseFail == [ok |-> FALSE, val |-> JNull, rest |-> <<>>]

Rest(b, n) == SubSeq(b, n + 1, Len(b))
StartsWith(b, p) == Len(b) >= Len(p) /\ SubSeq(b, 1, Len(p)) = p
IsDigit(c) == c \in 48..57

\* A run of digits at the head of b, as a number; acc[1] the value so far, acc[2]
\* the digits taken.
RECURSIVE ParseDigits(_, _)
ParseDigits(b, acc) ==
    IF b # <<>> /\ IsDigit(Head(b))
      THEN ParseDigits(Tail(b), <<acc[1] * 10 + (Head(b) - 48), acc[2] + 1>>)
      ELSE <<acc[1], acc[2], b>>

\* An integer: an optional minus sign and digits, without a leading zero.
ParseNumber(b) ==
    LET neg == b # <<>> /\ Head(b) = 45
        body == IF neg THEN Tail(b) ELSE b
        r == ParseDigits(body, <<0, 0>>)
    IN  IF r[2] = 0 \/ (r[2] > 1 /\ Head(body) = 48) THEN ParseFail
        ELSE Parsed(JNum(IF neg THEN 0 - r[1] ELSE r[1]), r[3])

\* The characters of a string up to its closing quote (b starts after the opening
\* one).
RECURSIVE ParseChars(_, _)
ParseChars(b, acc) ==
    IF b = <<>> THEN ParseFail
    ELSE IF Head(b) = 34 THEN Parsed(JStr(acc), Tail(b))
    ELSE IF Head(b) = 92
      THEN IF Len(b) >= 2 /\ b[2] \in {34, 92}
             THEN ParseChars(Rest(b, 2), Append(acc, b[2]))
             ELSE ParseFail
    ELSE ParseChars(Tail(b), Append(acc, Head(b)))

\* Deserializer::deserialize_any into a Value; depth is remaining_depth.
RECURSIVE ParseValue(_, _)
RECURSIVE ParseElems(_, _, _)
RECURSIVE ParseMembers(_, _, _)

\* The elements of an array after the first position, up to the closing bracket.
ParseElems(b, depth, acc) ==
    LET r == ParseValue(b, depth) IN
    IF ~r.ok \/ r.rest = <<>> THEN ParseFail
    ELSE IF Head(r.rest) = 93 THEN Parsed(JArr(Append(acc, r.val)), Tail(r.rest))
    ELSE IF Head(r.rest) = 44 THEN ParseElems(Tail(r.rest), depth, Append(acc, r.val))
    ELSE ParseFail

\* The members of an object, up to the closing brace; a repeated key keeps its
\* last value.
ParseMembers(b, depth, acc) ==
    IF b = <<>> \/ Head(b) # 34 THEN ParseFail
    ELSE LET k == ParseChars(Tail(b), <<>>) IN
      IF ~k.ok \/ k.rest = <<>> \/ Head(k.rest) # 58 THEN ParseFail
      ELSE LET r == ParseValue(Tail(k.rest), depth)
               f == [x \in DOMAIN acc \cup {k.val.v} |->
                        IF x = k.val.v THEN r.val ELSE acc[x]]
           IN IF ~r.ok \/ r.rest = <<>> THEN ParseFail
              ELSE IF Head(r.rest) = 125 THEN Parsed(JObj(f), Tail(r.rest))
              ELSE IF Head(r.rest) = 44 THEN ParseMembers(Tail(r.rest), depth, f)
              ELSE ParseFail

ParseValue(b, depth) ==
    IF b = <<>> THEN ParseFail
    ELSE CASE StartsWith(b, <<110, 117, 108, 108>>) -> Parsed(JNull, Rest(b, 4))
           [] StartsWith(b, <<116, 114, 117, 101>>) -> Parsed(JBool(TRUE), Rest(b, 4))
           [] StartsWith(b, <<102, 97, 108, 115, 101>>) ->
                 Parsed(JBool(FALSE), Rest(b, 5))
           [] Head(b) = 45 \/ IsDigit(Head(b)) -> ParseNumber(b)
           [] Head(b) = 34 -> ParseChars(Tail(b), <<>>)
           [] Head(b) = 91 ->
                 IF depth - 1 = 0 THEN ParseFail
                 ELSE IF Len(b) >= 2 /\ b[2] = 93 THEN Parsed(JArr(<<>>), Rest(b, 2))
                 ELSE ParseElems(Tail(b), depth - 1, <<>>)
           [] Head(b) = 123 ->
                 IF depth - 1 = 0 THEN ParseFail
                 ELSE IF Len(b) >= 2 /\ b[2] = 125 THEN Parsed(JObj(<<>>), Rest(b, 2))
                 ELSE ParseMembers(Tail(b), depth - 1, <<>>)
           [] OTHER -> ParseFail

\* Result<Value, ProtoError> of read_frame.
Ok(d) == [ok |-> TRUE, doc |-> d, err |-> "none"]
Err(e) == [ok |-> FALSE, doc |-> JNull, err |-> e]

\* serde_json::from_slice(&data): the whole slice is one document
from_slice(data) ==
    LET r == ParseValue(data, RecursionLimit) IN
    IF r.ok /\ r.rest = <<>> THEN Ok(r.val) ELSE Err("json")

\* write_frame(w, v): the bytes handed to write_all for a document
WriteFrame(v) ==
    LET bytes == to_vec(v) IN PutU32(CastU32(Len(bytes))) \o bytes

\* The stream holds a whole frame: both read_exact calls of read_frame return.
FrameReady(stream) == Len(stream) >= 4 /\ Len(stream) >= 4 + GetU32(stream)

\* read_frame(r) on a stream that holds a whole frame: its result, and the bytes
\* it leaves in the stream
ReadFrame(stream) ==
    LET len == GetU32(stream) IN
    <<from_slice(SubSeq(stream, 5, 4 + len)), Rest(stream, 4 + len)>>

\* ------------------------------------------------------------------ codec on a stream
\* The documents written in the model: every kind of value, strings that need
\* escaping, nested arrays and objects, arrays nested up to the parser's limit,
\* and a string whose text is longer than the length field can say.
RECURSIVE Nest(_)
Nest(n) == IF n = 0 THEN JNull ELSE JArr(<<Nest(n - 1)>>)

Scalars ==
    {JNull, JBool(TRUE), JBool(FALSE), JNum(0), JNum(7), JNum(-12), JNum(305),
     JStr(<<>>), JStr(<<97>>), JStr(<<34>>), JStr(<<92, 97>>)}

Leaves == {JNull, JNum(-12), JStr(<<34>>)}

Keys == {<<97>>, <<97, 98>>}

LongString == JStr([i \in 1..U32Modulus |-> 97])

Arrays ==
    {JArr(<<>>)} \cup {JArr(<<a>>) : a \in Scalars}
    \cup {JArr(<<a, b>>) : a, b \in Leaves}

Objects == UNION {[ks -> Leaves] : ks \in SUBSET Keys}

Docs ==
    Scalars \cup Arrays \cup {JObj(f) : f \in Objects}
    \cup {JArr(<<JObj(f), JArr(<<JNum(7)>>)>>) : f \in Objects}
    \cup {JObj([k \in {<<97>>} |-> a]) : a \in Arrays}
    \cup {Nest(RecursionLimit - 1), Nest(RecursionLimit)}
    \cup {LongString}

CodecInit ==
    /\ cin = <<>>
    /\ cstream = <<>>
    /\ ceof = FALSE
    /\ cout = <<>>

\* write_frame(&mut w, &d).await returns Ok: the frame is in the stream
CodecWrite(d) ==
    /\ ~ceof
    /\ cin' = Append(cin, d)
    /\ cstream' = cstream \o WriteFrame(d)
    /\ UNCHANGED <<ceof, cout>>
    /\ UNCHANGED <<clientVars, serverVars>>

\* read_frame(&mut r).await on a stream that holds a whole frame
CodecRead ==
    /\ FrameReady(cstream)
    /\ cout' = Append(cout, ReadFrame(cstream)[1])
    /\ cstream' = ReadFrame(cstream)[2]
    /\ UNCHANGED <<cin, ceof>>
    /\ UNCHANGED <<clientVars, serverVars>>

\* The writing side goes away; the stream ends after n of its unread bytes (a
\* write_all cut short loses the tail of the last frame).
CodecShutdown(n) ==
    /\ ~ceof
    /\ n \in 0..Len(cstream)
    /\ ceof' = TRUE
    /\ cstream' = SubSeq(cstream, 1, n)
    /\ UNCHANGED <<cin, cout>>
    /\ UNCHANGED <<clientVars, serverVars>>

\* read_frame(&mut r).await on a stream that ends before the frame does:
\* read_exact fails with UnexpectedEof
CodecReadEof ==
    /\ ceof
    /\ ~FrameReady(cstream)
    /\ Len(cout) < Len(cin) + 1
    /\ cout' = Append(cout, Err("io"))
    /\ cstream' = <<>>
    /\ UNCHANGED <<cin, ceof>>
    /\ UNCHANGED <<clientVars, serverVars>>


\* ------------------------------------------------------------------ call()
\* A call that sends its request without registering a waiter first.
InsertSkipped(p, c) == p

\* p.insert(request_id.clone(), tx): the registry with the sender of call c
Insert(p, c) ==
    [id \in DOMAIN p \cup {RequestId(c)} |-> IF id = RequestId(c) THEN c ELSE p[id]]

\* let mut p = self.pending.lock().await; p.insert(request_id.clone(), tx)
CallInsert(c) ==
    /\ callPc[c] = "idle"
    /\ pending' = Insert(pending, c)
    /\ callPc' = [callPc EXCEPT ![c] = "lockw"]
    /\ UNCHANGED <<chan, ret, retFrom, writer, readerPc, cur, nframes,
                   sent, delivered, atFail>>
    /\ UNCHANGED <<wbuf, sock>>
    /\ UNCHANGED <<serverVars, codecVars>>

\* let msg = serde_json::to_value(&req)?
RequestMsg(c) == [status |-> "request", request_id |-> RequestId(c)]

\* A send path that takes no lock.
LockIgnored == TRUE

\* self.writer.lock().await returns when no task holds the guard
LockAvailable == writer = "free"

\* let mut w = self.writer.lock().await; write_frame builds its buffer
CallLockWriter(c) ==
    /\ callPc[c] = "lockw"
    /\ LockAvailable
    /\ writer' = ToString(c)
    /\ callPc' = [callPc EXCEPT ![c] = "write"]
    /\ wbuf' = [wbuf EXCEPT ![c] = FrameBytes(RequestMsg(c))]
    /\ UNCHANGED <<pending, chan, ret, retFrom, readerPc, cur, nframes,
                   sent, delivered, atFail, sock>>
    /\ UNCHANGED <<serverVars, codecVars>>

\* The bytes b, each marked as written by call c.
WrittenBy(c, b) == [i \in 1..Len(b) |-> [by |-> c, byte |-> b[i]]]

\* write_frame(&mut *w, &msg).await?: write_all hands the socket the next n bytes;
\* after the last one, w.flush().await? and the guard is dropped
CallWriteOk(c, n) ==
    /\ callPc[c] = "write"
    /\ n \in 1..Len(wbuf[c])
    /\ sock' = sock \o WrittenBy(c, SubSeq(wbuf[c], 1, n))
    /\ wbuf' = [wbuf EXCEPT ![c] = SubSeq(@, n + 1, Len(@))]
    /\ IF n = Len(wbuf[c])
         THEN /\ sent' = Append(sent, RequestId(c))
              /\ writer' = "free"
              /\ callPc' = [callPc EXCEPT ![c] = "wait"]
         ELSE UNCHANGED <<sent, writer, callPc>>
    /\ UNCHANGED <<pending, chan, ret, retFrom, readerPc, cur, nframes,
                   delivered, atFail>>
    /\ UNCHANGED <<serverVars, codecVars>>

\* write_frame fails: `?` returns the io error; the guard and rx are dropped, the
\* registry entry stays.
CallWriteErr(c) ==
    /\ callPc[c] = "write"
    /\ writer' = "free"
    /\ callPc' = [callPc EXCEPT ![c] = "done_err"]
    /\ ret' = [ret EXCEPT ![c] = "io"]
    /\ wbuf' = [wbuf EXCEPT ![c] = <<>>]
    /\ UNCHANGED <<pending, chan, retFrom, readerPc, cur, nframes, sent,
                   delivered, atFail, sock>>
    /\ UNCHANGED <<serverVars, codecVars>>

\* A wait loop that returns on the first Response of any kind.
CallOutcomeAny(resp) ==
    IF resp.status \in {"accepted", "completed"} /\ resp.ok THEN "done_ok"
    ELSE "done_err"

\* The wait loop's match on one received Response.
CallOutcome(resp) ==
    CASE resp.status = "accepted" -> "wait"
      [] resp.status = "completed" /\ resp.ok -> "done_ok"
      [] OTHER -> "done_err"

CallValue(resp) ==
    CASE resp.status = "accepted" -> Null
      [] resp.status = "completed" /\ resp.ok -> resp.result
      [] resp.status = "completed" ->
            IF resp.error = Null THEN "server error" ELSE resp.error
      [] OTHER -> resp.error

\* The sender of call c's channel is alive while the registry holds it.
TxAlive(c) == \E id \in DOMAIN pending : pending[id] = c

\* rx.recv().await: the next Response, or None once the channel is empty and its
\* sender was dropped (then `?` returns "connection closed").
CallRecv(c) ==
    /\ callPc[c] = "wait"
    /\ chan[c] # <<>> \/ ~TxAlive(c)
    /\ IF chan[c] # <<>>
         THEN LET resp == Head(chan[c]) IN
            /\ chan' = [chan EXCEPT ![c] = Tail(@)]
            /\ callPc' = [callPc EXCEPT ![c] = CallOutcome(resp)]
            /\ ret' = [ret EXCEPT ![c] = CallValue(resp)]
            /\ retFrom' = [retFrom EXCEPT ![c] = resp]
         ELSE
            /\ callPc' = [callPc EXCEPT ![c] = "done_err"]
            /\ ret' = [ret EXCEPT ![c] = "connection closed"]
            /\ UNCHANGED <<chan, retFrom>>
    /\ UNCHANGED <<pending, writer, readerPc, cur, nframes, sent,
                   delivered, atFail>>
    /\ UNCHANGED <<wbuf, sock>>
    /\ UNCHANGED <<serverVars, codecVars>>

\* ------------------------------------------------------------------ receive task
\* let mut r = reader.lock().await: held until the task ends
ReaderLock ==
    /\ readerPc = "start"
    /\ writer = "free"
    /\ writer' = "reader"
    /\ readerPc' = "read"
    /\ UNCHANGED <<callPc, pending, chan, ret, retFrom, cur, nframes,
                   sent, delivered, atFail>>
    /\ UNCHANGED <<wbuf, sock>>
    /\ UNCHANGED <<serverVars, codecVars>>

\* read_frame returns Ok(frame); serde_json::from_value(frame) decides whether the
\* loop routes it or logs "bad response json" and continues.
ReaderRead(f) ==
    /\ readerPc = "read"
    /\ nframes' = nframes + 1
    /\ IF IsResponse(f)
         THEN cur' = f /\ readerPc' = "route"
         ELSE cur' = cur /\ readerPc' = "read"
    /\ UNCHANGED <<callPc, pending, chan, ret, retFrom, writer, sent,
                   delivered, atFail>>
    /\ UNCHANGED <<wbuf, sock>>
    /\ UNCHANGED <<serverVars, codecVars>>

\* read_frame returns Err: io error, truncated frame or invalid JSON
ReaderReadErr ==
    /\ readerPc = "read"
    /\ readerPc' = "drain"
    /\ atFail' = {pending[id] : id \in DOMAIN pending}
    /\ UNCHANGED <<callPc, pending, chan, ret, retFrom, writer, cur, nframes, sent, delivered>>
    /\ UNCHANGED <<wbuf, sock>>
    /\ UNCHANGED <<serverVars, codecVars>>

\* A failure handler that breaks out of the loop without draining.
DrainNone == {}

\* for (_, tx) in p.drain(): the entries the failure handler takes out
DrainTargets == DOMAIN pending

\* the drain, then break: the task ends and drops the socket guard
ReaderDrain ==
    /\ readerPc = "drain"
    /\ LET hit == {pending[id] : id \in DrainTargets} IN
        /\ chan' = [c \in Calls |->
                      IF c \in hit /\ RxAlive(c)
                        THEN Append(chan[c], ConnectionClosed) ELSE chan[c]]
        /\ delivered' = [c \in Calls |->
                      IF c \in hit /\ RxAlive(c)
                        THEN Append(delivered[c], ConnectionClosed)
                        ELSE delivered[c]]
    /\ pending' = [id \in DOMAIN pending \ DrainTargets |-> pending[id]]
    /\ readerPc' = "ended"
    /\ writer' = "free"
    /\ UNCHANGED <<callPc, ret, retFrom, cur, nframes, sent, atFail>>
    /\ UNCHANGED <<wbuf, sock>>
    /\ UNCHANGED <<serverVars, codecVars>>

\* A routing by arrival: the response goes to some registered waiter, whatever
\* its id.
RouteKeyFirst(resp) ==
    IF DOMAIN pending = {} THEN resp.request_id
    ELSE CHOOSE id \in DOMAIN pending : TRUE

\* let req_id = match &resp { ... request_id.clone() }
RouteKey(resp) == resp.request_id

\* A receive loop that never removes an entry.
RemoveNever(resp) == FALSE

\* if matches!(resp, Completed{..} | Error{..}) { p.remove(&req_id); }
RemoveAfterSend(resp) == IsTerminal(resp)

\* A receive loop that takes a Response without a waiter for a dead connection.
UnmatchedIsFatal == "drain"

\* if let Some(tx) = p.get(&req_id) { .. } has no else: the loop reads on
AfterUnmatched == "read"

\* if let Some(tx) = p.get(&req_id) { tx.send(resp); remove on Completed/Error }
ReaderRoute ==
    /\ readerPc = "route"
    /\ LET req_id == RouteKey(cur) IN
        IF req_id \in DOMAIN pending
          THEN LET c == pending[req_id] IN
            /\ chan' = [chan EXCEPT ![c] =
                          IF RxAlive(c) THEN Append(@, cur) ELSE @]
            /\ delivered' = [delivered EXCEPT ![c] =
                          IF RxAlive(c) THEN Append(@, cur) ELSE @]
            /\ pending' = IF RemoveAfterSend(cur)
                            THEN [id \in DOMAIN pending \ {req_id} |-> pending[id]]
                            ELSE pending
          ELSE UNCHANGED <<chan, delivered, pending>>
    /\ readerPc' = IF RouteKey(cur) \in DOMAIN pending THEN "read" ELSE AfterUnmatched
    /\ cur' = NoFrame
    /\ UNCHANGED <<callPc, ret, retFrom, writer, nframes, sent, atFail>>
    /\ UNCHANGED <<wbuf, sock>>
    /\ UNCHANGED <<serverVars, codecVars>>

\* ------------------------------------------------------------------ server
\* The names the dispatch match knows (one stands for the four operations, which
\* the dispatcher treats alike) and a name it does not know.
KnownFuncs == {"sort_array"}
Funcs == KnownFuncs \cup {"nope"}

\* Request ids are chosen by the peer.
PeerIds == {ToString(k) : k \in 1..MaxReqs}

Requests == [request_id : PeerIds, func : Funcs]

\* lib.rs holds resp_ok and resp_err; resp_accepted, which server.rs imports, is
\* not in it: it is taken to build the Accepted response for the id.
resp_accepted(request_id) == Accepted(request_id)
resp_ok(request_id, result) == Completed(request_id, TRUE, result, Null)
\* A helper that reports a failure as a Completed response without ok.
resp_err_completed(request_id, msg) == Completed(request_id, FALSE, Null, msg)

\* resp_err: to_value(RpcResponse::Error { request_id, ok: false, error: msg })
resp_err(request_id, msg) == ErrorResp(request_id, msg)

\* An entry of the channel: the frame, and (history) the index of the request it
\* answers.
Entry(msg, k) == [msg |-> msg, req |-> k]

\* The channel's receiver lives in the writer task.
RxOpen == wrPc \in {"recv", "write"}

\* A channel that puts a new frame before the frames it holds.
SendFront(q, e) == IF RxOpen THEN <<e>> \o q ELSE q

\* tx.send(frame): the channel takes the frame, behind the frames it holds, unless
\* its receiver was dropped
Send(q, e) == IF RxOpen THEN Append(q, e) ELSE q

ServerInit ==
    /\ rdPc = "read"
    /\ rdRet = "none"
    /\ reqs = <<>>
    /\ hstate = <<>>
    /\ outq = <<>>
    /\ wrPc = "recv"
    /\ wrBuf = <<>>
    /\ wire = <<>>
    /\ enq = <<>>
    /\ endedAt = 0

\* e.to_string() of the Err the dispatch match yields: the fallback arm's message
\* for a name it does not know, the operation's own message otherwise.
ErrorOf(func) ==
    IF func \in KnownFuncs THEN "invalid params" ELSE "unknown function"

\* The frame the handler task builds from the operation's result.
FinalFrame(req, okv) ==
    IF okv THEN resp_ok(req.request_id, ResultOf(req.request_id))
           ELSE resp_err(req.request_id, ErrorOf(req.func))

\* A read loop that sends no acknowledgment (a single-phase server).
AckNone(req, k) == <<>>

\* 1) Immediately acknowledge: what the read loop sends for a decoded request
AckFrames(req, k) == <<Entry(resp_accepted(req.request_id), k)>>

\* A handler task that answers only the functions it knows.
HandlerFramesKnownOnly(req, k, okv) ==
    IF req.func \in KnownFuncs THEN <<Entry(FinalFrame(req, okv), k)>> ELSE <<>>

\* A handler task that sends its final frame twice.
HandlerFramesTwice(req, k, okv) ==
    <<Entry(FinalFrame(req, okv), k), Entry(FinalFrame(req, okv), k)>>

\* 3) Send the final result: what the spawned task sends when the operation ends
HandlerFrames(req, k, okv) == <<Entry(FinalFrame(req, okv), k)>>

RECURSIVE SendAll(_, _)
SendAll(q, es) == IF es = <<>> THEN q ELSE SendAll(Send(q, Head(es)), Tail(es))

\* A read loop that runs each handler inline, before it reads again.
ReadLoopAwaitsHandlers == \A k \in 1..Len(hstate) : hstate[k] = "done"

\* The read loop awaits nothing but read_frame: the handlers run in their own tasks.
ReadLoopFree == TRUE

\* The ids of the requests whose handler has not returned.
Outstanding == {reqs[k].request_id : k \in {j \in 1..Len(reqs) : hstate[j] = "running"}}

\* The ids the peer has used so far on the connection.
UsedIds == {reqs[k].request_id : k \in 1..Len(reqs)}

\* The requests the peer can send next: under a new id (the ids are opaque to the
\* server, so the next unused one stands for any new id), or under an id it used
\* before that is no longer outstanding.
NextRequests ==
    {r \in Requests :
        /\ r.request_id \notin Outstanding
        /\ r.request_id \in UsedIds \cup {ToString(Cardinality(UsedIds) + 1)}}

\* read_frame and from_value succeed: acknowledge, spawn, loop
ReadRequest(req) ==
    /\ rdPc = "read"
    /\ ReadLoopFree
    /\ LET k == Len(reqs) + 1 IN
        /\ reqs' = Append(reqs, req)
        /\ outq' = SendAll(outq, AckFrames(req, k))
        /\ enq' = SendAll(enq, AckFrames(req, k))
        /\ hstate' = Append(hstate, "running")
    /\ UNCHANGED <<rdPc, rdRet, wrPc, wrBuf, wire, endedAt>>
    /\ UNCHANGED <<clientVars, codecVars>>

\* A read loop that logs a bad frame and reads the next one.
ReadErrorContinues == "read"

\* return Err(..): where an error of read_frame or of from_value leaves the loop
ReadErrorReturns == "ended"

\* read_frame fails (end of stream, io error, truncated frame, invalid JSON):
\* handle_client returns the error and drops rd and tx; nothing is sent
ReadFail ==
    /\ rdPc = "read"
    /\ rdPc' = ReadErrorReturns
    /\ rdRet' = "io or json"
    /\ endedAt' = Len(enq)
    /\ UNCHANGED <<reqs, hstate, outq, wrPc, wrBuf, wire, enq>>
    /\ UNCHANGED <<clientVars, codecVars>>

\* read_frame yields a document that is not an RpcRequest: handle_client returns
\* "malformed request" and drops rd and tx; nothing is sent
ReadMalformed ==
    /\ rdPc = "read"
    /\ rdPc' = ReadErrorReturns
    /\ rdRet' = "malformed request"
    /\ endedAt' = Len(enq)
    /\ UNCHANGED <<reqs, hstate, outq, wrPc, wrBuf, wire, enq>>
    /\ UNCHANGED <<clientVars, codecVars>>

\* The results the dispatch match can produce for a function name: an unknown
\* name is an error, a known operation succeeds or rejects its params.
Outcomes(func) == IF func \in KnownFuncs THEN {TRUE, FALSE} ELSE {FALSE}

\* the spawned task: run the operation, then tx2.send(frame)
HandlerFinish(k, okv) ==
    /\ k \in 1..Len(reqs)
    /\ hstate[k] = "running"
    /\ okv \in Outcomes(reqs[k].func)
    /\ hstate' = [hstate EXCEPT ![k] = "done"]
    /\ outq' = SendAll(outq, HandlerFrames(reqs[k], k, okv))
    /\ enq' = SendAll(enq, HandlerFrames(reqs[k], k, okv))
    /\ UNCHANGED <<rdPc, rdRet, reqs, wrPc, wrBuf, wire, endedAt>>
    /\ UNCHANGED <<clientVars, codecVars>>

\* A channel that closes as soon as handle_client returns and drops tx.
SendersDroppedAtReturn == rdPc = "ended"

\* Every sender is dropped: handle_client returned and every handler task ended.
SendersDropped == rdPc = "ended" /\ \A k \in 1..Len(hstate) : hstate[k] = "done"

\* A writer that takes the newest frame of the channel first.
DequeueNewest(q) == <<q[Len(q)], SubSeq(q, 1, Len(q) - 1)>>

\* rx.recv().await yields Some(msg): the frame taken, and the channel without it
Dequeue(q) == <<Head(q), Tail(q)>>

WriterRecv ==
    /\ wrPc = "recv"
    /\ outq # <<>>
    /\ wrBuf' = FrameBytes(Dequeue(outq)[1].msg)
    /\ outq' = Dequeue(outq)[2]
    /\ wrPc' = "write"
    /\ UNCHANGED <<rdPc, rdRet, reqs, hstate, wire, enq, endedAt>>
    /\ UNCHANGED <<clientVars, codecVars>>

\* rx.recv().await yields None: the task returns Ok(())
WriterClosed ==
    /\ wrPc = "recv"
    /\ outq = <<>>
    /\ SendersDropped
    /\ wrPc' = "stopped"
    /\ UNCHANGED <<rdPc, rdRet, reqs, hstate, outq, wrBuf, wire, enq, endedAt>>
    /\ UNCHANGED <<clientVars, codecVars>>

\* write_all: the socket takes the next n bytes of the frame; after the last one,
\* flush, and back to rx.recv()
WriterWrite(n) ==
    /\ wrPc = "write"
    /\ n \in 1..Len(wrBuf)
    /\ wire' = wire \o SubSeq(wrBuf, 1, n)
    /\ wrBuf' = SubSeq(wrBuf, n + 1, Len(wrBuf))
    /\ wrPc' = IF n = Len(wrBuf) THEN "recv" ELSE "write"
    /\ UNCHANGED <<rdPc, rdRet, reqs, hstate, outq, enq, endedAt>>
    /\ UNCHANGED <<clientVars, codecVars>>

\* a socket write fails: the task returns Err and drops rx with what it holds
WriterFail ==
    /\ wrPc = "write"
    /\ wrPc' = "failed"
    /\ wrBuf' = <<>>
    /\ outq' = <<>>
    /\ UNCHANGED <<rdPc, rdRet, reqs, hstate, wire, enq, endedAt>>
    /\ UNCHANGED <<clientVars, codecVars>>

Init == ClientInit /\ ServerInit /\ CodecInit

\* ------------------------------------------------------------------ client specifications

\* The peer may put any frame on the socket, or break the connection, at any time.
ClientNext ==
    \/ \E c \in Calls : CallInsert(c)
    \/ \E c \in Calls : CallLockWriter(c)
    \/ \E c \in Calls : \E n \in 1..Len(wbuf[c]) : CallWriteOk(c, n)
    \/ \E c \in Calls : CallWriteErr(c)
    \/ \E c \in Calls : CallRecv(c)
    \/ ReaderLock
    \/ \E f \in AllFrames : nframes < MaxFrames /\ ReaderRead(f)
    \/ ReaderReadErr
    \/ ReaderDrain
    \/ ReaderRoute

ClientSpec == Init /\ [][ClientNext]_vars

\* The tokio runtime polls every task that can make progress.
CallFairness ==
    \A c \in Calls :
        /\ WF_vars(CallLockWriter(c))
        /\ WF_vars((\E n \in 1..Len(wbuf[c]) : CallWriteOk(c, n)) \/ CallWriteErr(c))
        /\ WF_vars(CallRecv(c))

ReaderFairness ==
    /\ WF_vars(ReaderLock)
    /\ WF_vars(ReaderDrain)
    /\ WF_vars(ReaderRoute)

ClientFairSpec == ClientSpec /\ CallFairness /\ ReaderFairness

\* A connection that stays alive with a server that answers every request: no read
\* or write ever fails, and for each request written the server sends Accepted and
\* then one Completed carrying the request's id.
Got(id, kinds) ==
    \/ cur.status \in kinds /\ cur.request_id = id
    \/ \E c \in Calls : \E i \in 1..Len(delivered[c]) :
          delivered[c][i].status \in kinds /\ delivered[c][i].request_id = id

SentIds == {sent[i] : i \in 1..Len(sent)}

OwedFrames ==
    {Accepted(id) : id \in {x \in SentIds : ~Got(x, {"accepted", "completed"})}}
    \cup {Completed(id, TRUE, ResultOf(id), Null) :
            id \in {x \in SentIds : Got(x, {"accepted"}) /\ ~Got(x, {"completed"})}}

LiveNext ==
    \/ \E c \in Calls : CallInsert(c)
    \/ \E c \in Calls : CallLockWriter(c)
    \/ \E c \in Calls : \E n \in 1..Len(wbuf[c]) : CallWriteOk(c, n)
    \/ \E c \in Calls : CallRecv(c)
    \/ ReaderLock
    \/ \E f \in OwedFrames : ReaderRead(f)
    \/ ReaderRoute

ClientLiveSpec ==
    /\ Init /\ [][LiveNext]_vars
    /\ CallFairness /\ ReaderFairness
    /\ WF_vars(\E f \in OwedFrames : ReaderRead(f))

\* ------------------------------------------------------------------ server specifications
ServerNext ==
    \/ \E req \in NextRequests : Len(reqs) < MaxReqs /\ ReadRequest(req)
    \/ ReadFail
    \/ ReadMalformed
    \/ \E k \in 1..MaxReqs, okv \in BOOLEAN : HandlerFinish(k, okv)
    \/ WriterRecv
    \/ WriterClosed
    \/ \E n \in 1..Len(wrBuf) : WriterWrite(n)
    \/ WriterFail

ServerSpec == Init /\ [][ServerNext]_vars

\* The tokio runtime polls every task that can make progress: an operation
\* returns, the writer task takes the next frame or sees the channel closed,
\* and a socket write ends, with bytes written or with an error (a peer that
\* keeps the connection open and stops reading is outside this specification).
ServerFairness ==
    /\ \A k \in 1..MaxReqs : WF_vars(\E okv \in BOOLEAN : HandlerFinish(k, okv))
    /\ WF_vars(WriterRecv)
    /\ WF_vars(WriterClosed)
    /\ WF_vars((\E n \in 1..Len(wrBuf) : WriterWrite(n)) \/ WriterFail)

ServerFairSpec == ServerSpec /\ ServerFairness

\* ------------------------------------------------------------------ codec specification
CodecNext ==
    \/ \E d \in Docs : Len(cin) < MaxDocs /\ CodecWrite(d)
    \/ CodecRead
    \/ \E n \in 0..Len(cstream) : CodecShutdown(n)
    \/ CodecReadEof

CodecSpec == Init /\ [][CodecNext]_vars

\* ------------------------------------------------------------------ client properties
Last(q) == q[Len(q)]

\* C1: a Response reaches only the waiter registered under its request_id, and a
\* call that returns a result returns the result of the Completed response that
\* carries the call's own id.
C1_CorrelationById ==
    \A c \in Calls :
        /\ \A i \in 1..Len(delivered[c]) :
              delivered[c][i] = ConnectionClosed
              \/ delivered[c][i].request_id = RequestId(c)
        /\ callPc[c] = "done_ok" =>
              /\ retFrom[c].status = "completed"
              /\ retFrom[c].request_id = RequestId(c)
              /\ ret[c] = retFrom[c].result

\* Every call was written before any response was read, and every call returned
\* the result computed for its own id.
C1_Witness ==
    /\ Len(sent) = NCalls
    /\ \A c \in Calls : callPc[c] = "done_ok" /\ ret[c] = ResultOf(RequestId(c))

\* C2 (as claimed): on a live connection with an answering server every call that
\* was issued eventually returns.
C2_EveryCallReturns ==
    \A c \in Calls : (callPc[c] = "lockw") ~> (callPc[c] \in Returned)

\* C3: every call registered when read_frame failed eventually returns an error.
C3_DisconnectBroadcast ==
    \A c \in Calls : (c \in atFail) ~> (callPc[c] = "done_err")

\* read_frame failed with every call registered and waiting for its response, and
\* every one of them returned "connection closed".
C3_Witness ==
    /\ atFail = Calls
    /\ Len(sent) = NCalls
    /\ \A c \in Calls : callPc[c] = "done_err" /\ ret[c] = "connection closed"

\* C4 (as claimed): once the receive task has ended, every call in progress
\* eventually returns.
C4_NoCallWaitsOnDeadConnection ==
    \A c \in Calls :
        (readerPc = "ended" /\ callPc[c] \in {"lockw", "write", "wait"})
            ~> (callPc[c] \in Returned)

\* C5: a waiter's channel takes at most one terminal Response, and nothing after it.
C5_AtMostOneTerminal ==
    \A c \in Calls : \A i \in 1..Len(delivered[c]) :
        IsTerminal(delivered[c][i]) => i = Len(delivered[c])

\* A second terminal frame for an id is about to be routed after the first one
\* was delivered to the id's waiter.
C5_Witness ==
    \E c \in Calls :
        /\ readerPc = "route"
        /\ IsTerminal(cur) /\ cur.request_id = RequestId(c)
        /\ delivered[c] # <<>> /\ IsTerminal(Last(delivered[c]))

\* The bytes on the socket that call c wrote, in order.
BytesOf(c) ==
    LET mine == SelectSeq(sock, LAMBDA e : e.by = c) IN
    [i \in 1..Len(mine) |-> mine[i].byte]

SockBytes == [i \in 1..Len(sock) |-> sock[i].byte]

\* The request frames of a sequence of ids, written back to back.
RECURSIVE ConcatRequests(_)
ConcatRequests(ids) ==
    IF ids = <<>> THEN <<>>
    ELSE FrameBytes([status |-> "request", request_id |-> Head(ids)])
         \o ConcatRequests(Tail(ids))

\* C13: at most one call is writing, and it holds the lock from the first byte of
\* its frame to the last; the bytes of different calls never interleave, what a
\* call has written is the part of its frame it is not still holding, whole once
\* its write returned Ok; and whenever no write has failed and none is under way
\* the socket holds exactly the frames written, whole, one after the other.
C13_ExclusiveSendPath ==
    /\ Cardinality({c \in Calls : callPc[c] = "write"}) <= 1
    /\ \A c \in Calls :
          /\ callPc[c] = "write" => writer = ToString(c)
          /\ callPc[c] # "write" => wbuf[c] = <<>>
          /\ callPc[c] = "write" =>
                BytesOf(c) \o wbuf[c] = FrameBytes(RequestMsg(c))
          /\ (callPc[c] \in {"wait", "done_ok", "done_err"} /\ ret[c] # "io") =>
                BytesOf(c) = FrameBytes(RequestMsg(c))
          /\ callPc[c] \in {"idle", "lockw"} => BytesOf(c) = <<>>
    /\ \A i, j \in 1..Len(sock) :
          (i < j /\ sock[i].by = sock[j].by) =>
              \A k \in i..j : sock[k].by = sock[i].by
    /\ (\A c \in Calls : callPc[c] # "write" /\ ret[c] # "io") =>
          SockBytes = ConcatRequests(sent)

\* One call is in the middle of its frame while another one, already registered,
\* waits for the lock, after an earlier part of the first frame reached the socket.
C13_Witness ==
    /\ callPc[1] = "write" /\ callPc[2] = "lockw"
    /\ Len(wbuf[1]) \in 1..(Len(FrameBytes(RequestMsg(1))) - 1)
    /\ sock # <<>>

\* The first terminal Response of a sequence of Responses (NoFrame if none).
FirstTerminal(q) ==
    IF \E i \in 1..Len(q) : IsTerminal(q[i])
      THEN q[CHOOSE i \in 1..Len(q) :
                IsTerminal(q[i]) /\ \A j \in 1..(i - 1) : ~IsTerminal(q[j])]
      ELSE NoFrame

\* C14: a call that returns on a Response returns on the first terminal Response
\* its channel took, never on an Accepted: Ok(result), or Ok(null) without a
\* result, for Completed with ok; Err with the carried message for Completed
\* without ok and for Error.
C14_OutcomeIsFirstTerminal ==
    \A c \in Calls :
        /\ callPc[c] \in {"idle", "lockw", "write", "wait"} => ret[c] = Null
        /\ callPc[c] = "wait" => retFrom[c].status \in {"none", "accepted"}
        /\ (callPc[c] \in Returned /\ ret[c] # "io") =>
              /\ retFrom[c] = FirstTerminal(delivered[c])
              /\ IsTerminal(retFrom[c])
              /\ (retFrom[c].status = "completed" /\ retFrom[c].ok) =>
                    callPc[c] = "done_ok" /\ ret[c] = retFrom[c].result
              /\ (retFrom[c].status = "completed" /\ ~retFrom[c].ok) =>
                    /\ callPc[c] = "done_err"
                    /\ retFrom[c].error # Null => ret[c] = retFrom[c].error
              /\ retFrom[c].status = "error" =>
                    callPc[c] = "done_err" /\ ret[c] = retFrom[c].error

\* One call took Accepted and then Completed with a result and returned the
\* result; the other took an Error and returned its message.
C14_Witness ==
    /\ callPc[1] = "done_ok" /\ ret[1] = ResultOf("1")
    /\ delivered[1] = <<Accepted("1"), Completed("1", TRUE, ResultOf("1"), Null)>>
    /\ callPc[2] = "done_err" /\ ret[2] = "failed"
    /\ delivered[2] = <<ErrorResp("2", "failed")>>

\* Call c has not been handed a terminal Response.
NoTerminalYet(c) == \A i \in 1..Len(delivered[c]) : ~IsTerminal(delivered[c][i])

Registered(c) == RequestId(c) \in DOMAIN pending /\ pending[RequestId(c)] = c

\* C15: a call has its waiter in the registry before the first byte of its request
\* is on the socket, and keeps it until a terminal Response is handed to it: a
\* Response the receive loop routes for the id of a call that is writing or
\* waiting finds the waiter and is put on its channel.
C15_RegistrationPrecedesSend ==
    /\ [](\A c \in Calls :
            /\ (callPc[c] \in {"lockw", "write", "wait"} /\ NoTerminalYet(c)) =>
                  Registered(c)
            /\ (BytesOf(c) # <<>> /\ NoTerminalYet(c)) =>
                  (Registered(c) \/ callPc[c] \in Returned))
    /\ [][\A c \in Calls :
            (/\ readerPc = "route" /\ readerPc' = "read"
             /\ cur.request_id = RequestId(c)
             /\ callPc[c] \in {"write", "wait"} /\ NoTerminalYet(c)) =>
                delivered'[c] = Append(delivered[c], cur)]_vars

\* The receive loop is about to route the first Response to a request that was
\* written whole, while the call that sent it waits.
C15_Witness ==
    /\ readerPc = "route" /\ cur.request_id = RequestId(1)
    /\ callPc[1] = "wait" /\ delivered[1] = <<>>
    /\ BytesOf(1) = FrameBytes(RequestMsg(1))
    /\ Registered(1)

\* C16: the step that routes a Response whose id has no registered waiter changes
\* neither the registry nor any channel, keeps the socket, and leaves the receive
\* loop reading the next frame.
C16_UnmatchedResponseDropped ==
    [][(readerPc = "route" /\ readerPc' # readerPc
            /\ cur.request_id \notin DOMAIN pending) =>
          /\ pending' = pending /\ chan' = chan /\ delivered' = delivered
          /\ callPc' = callPc /\ ret' = ret
          /\ writer' = "reader" /\ readerPc' = "read"]_vars

\* A terminal Response under an id no call owns is about to be routed while both
\* calls are registered and wait for their own.
C16_Witness ==
    /\ readerPc = "route"
    /\ IsTerminal(cur) /\ cur.request_id = "0"
    /\ \A c \in Calls : callPc[c] = "wait" /\ Registered(c) /\ chan[c] = <<>>

\* C17 (as claimed): once the receive task has ended on a read failure, every
\* waiter that was registered at the drain has been handed, last, an Error with
\* its own request id and the text "connection closed"; the registry was emptied
\* in that step, so it holds only calls registered after it.
C17_DrainDeliversOwnId ==
    /\ \A c \in Calls : \A i \in 1..Len(delivered[c]) :
          (delivered[c][i].status = "error"
              /\ delivered[c][i].error = "connection closed") =>
                delivered[c][i].request_id = RequestId(c)
    /\ readerPc = "ended" =>
          \A c \in atFail :
              \/ ret[c] = "io"
              \/ /\ delivered[c] # <<>>
                 /\ Last(delivered[c]) = ErrorResp(RequestId(c), "connection closed")

\* C18 (as claimed): whenever the receive loop takes a frame from the socket that
\* it does not go on to route as a Response, or fails to take one, it goes to the
\* drain, which ends the task.
C18_ClientTransportFailureFatal ==
    /\ [][(readerPc = "read" /\ nframes' # nframes /\ readerPc' # "route") =>
              readerPc' = "drain"]_vars
    /\ [][(readerPc = "read" /\ nframes' = nframes /\ readerPc' # readerPc) =>
              readerPc' = "drain"]_vars
    /\ [][readerPc = "drain" => readerPc' \in {"drain", "ended"}]_vars

\* ------------------------------------------------------------------ server properties
\* The payloads of the complete frames at the head of a byte stream, as a peer that
\* reads length-prefixed frames sees them.
RECURSIVE WirePayloads(_)
WirePayloads(bytes) ==
    IF Len(bytes) < 4 \/ Len(bytes) < 4 + GetU32(bytes) THEN <<>>
    ELSE <<SubSeq(bytes, 5, 4 + GetU32(bytes))>>
         \o WirePayloads(SubSeq(bytes, 5 + GetU32(bytes), Len(bytes)))

OnWire == WirePayloads(wire)

IsAcceptedPayload(b) == b[1] = StatusByte("accepted")
IsTerminalPayload(b) == b[1] # StatusByte("accepted")
PayloadId(b) == b[2]

\* The bytes of a sequence of channel entries written back to back.
RECURSIVE ConcatFrames(_)
ConcatFrames(es) ==
    IF es = <<>> THEN <<>> ELSE FrameBytes(Head(es).msg) \o ConcatFrames(Tail(es))

IsPrefix(a, b) == Len(a) <= Len(b) /\ a = SubSeq(b, 1, Len(a))

\* How many of the first n entries satisfy a test.
AcceptedFor(k, n) ==
    Cardinality({i \in 1..n : enq[i].req = k /\ enq[i].msg.status = "accepted"})
TerminalFor(k, n) ==
    Cardinality({i \in 1..n : enq[i].req = k /\ IsTerminal(enq[i].msg)})

\* C6: the terminal frame of a request is enqueued, and written, only after the
\* Accepted frame of the same request.
C6_AcceptedBeforeTerminal ==
    /\ \A j \in 1..Len(enq) :
          IsTerminal(enq[j].msg) =>
              \E i \in 1..(j - 1) :
                  /\ enq[i].req = enq[j].req
                  /\ enq[i].msg = Accepted(enq[j].msg.request_id)
    /\ LET w == OnWire IN
        \A j \in 1..Len(w) :
          IsTerminalPayload(w[j]) =>
              \E i \in 1..(j - 1) :
                  IsAcceptedPayload(w[i]) /\ PayloadId(w[i]) = PayloadId(w[j])

\* Both frames of one request are on the socket, the Accepted one first.
C6_Witness ==
    LET w == OnWire IN
    \E i, j \in 1..Len(w) :
        /\ i < j
        /\ IsAcceptedPayload(w[i]) /\ IsTerminalPayload(w[j])
        /\ PayloadId(w[i]) = PayloadId(w[j])

\* C7 (as claimed): every decoded request has exactly one Accepted frame enqueued,
\* and exactly one terminal frame once its handler has returned.
C7_ExactlyOneTerminal ==
    \A k \in 1..Len(reqs) :
        /\ AcceptedFor(k, Len(enq)) = 1
        /\ TerminalFor(k, Len(enq)) = (IF hstate[k] = "done" THEN 1 ELSE 0)

\* C7 (amended): never more than one Accepted and one terminal frame per decoded
\* request, each carrying the request's id, none before the handler returns; and
\* exactly one of each unless the writer task has stopped on a socket write error.
C7_ExactlyOneUnlessWriterFailed ==
    /\ \A i \in 1..Len(enq) :
          /\ enq[i].req \in 1..Len(reqs)
          /\ enq[i].msg.request_id = reqs[enq[i].req].request_id
    /\ \A k \in 1..Len(reqs) :
        /\ AcceptedFor(k, Len(enq)) <= 1
        /\ TerminalFor(k, Len(enq)) <= (IF hstate[k] = "done" THEN 1 ELSE 0)
        /\ wrPc # "failed" =>
              /\ AcceptedFor(k, Len(enq)) = 1
              /\ TerminalFor(k, Len(enq)) = (IF hstate[k] = "done" THEN 1 ELSE 0)

\* Two requests were decoded and both handlers returned with the writer running.
C7_Witness ==
    /\ Len(reqs) >= 2
    /\ wrPc # "failed"
    /\ \A k \in 1..Len(reqs) : hstate[k] = "done" /\ TerminalFor(k, Len(enq)) = 1

\* C8: the socket holds the frames of the channel, whole, in the order they were
\* enqueued: its bytes are a prefix of the enqueued frames written back to back,
\* and between two frames they are exactly the frames taken from the channel.
C8_SingleOrderedWriter ==
    /\ IsPrefix(wire, ConcatFrames(enq))
    /\ wrPc \in {"recv", "stopped"} =>
          wire = ConcatFrames(SubSeq(enq, 1, Len(enq) - Len(outq)))
    /\ wrPc = "write" =>
          wire \o wrBuf = ConcatFrames(SubSeq(enq, 1, Len(enq) - Len(outq)))

\* The terminal frame of the second request is on the socket before the terminal
\* frame of the first.
C8_Witness ==
    /\ Len(reqs) >= 2
    /\ reqs[1].request_id # reqs[2].request_id
    /\ \E i, j \in 1..Len(OnWire) :
        /\ i < j
        /\ IsTerminalPayload(OnWire[i]) /\ IsTerminalPayload(OnWire[j])
        /\ PayloadId(OnWire[i]) = IdByte(reqs[2].request_id)
        /\ PayloadId(OnWire[j]) = IdByte(reqs[1].request_id)

\* The Accepted entries of a sequence of channel entries.
IsAcceptedEntry(e) == e.msg.status = "accepted"
AcceptedEntries == SelectSeq(enq, IsAcceptedEntry)
AcceptedOnWire == SelectSeq(OnWire, IsAcceptedPayload)

\* C9: the Accepted frames are enqueued, and written, in the order in which their
\* requests were read.
C9_AcceptedInReadOrder ==
    /\ Len(AcceptedEntries) <= Len(reqs)
    /\ \A i \in 1..Len(AcceptedEntries) : AcceptedEntries[i].req = i
    /\ LET w == AcceptedOnWire IN
        /\ Len(w) <= Len(AcceptedEntries)
        /\ \A i \in 1..Len(w) : PayloadId(w[i]) = IdByte(reqs[i].request_id)

\* Two requests were acknowledged on the socket while the
\* handler of the first was still running.
C9_Witness ==
    /\ Len(reqs) >= 2
    /\ hstate[1] = "running"
    /\ Len(AcceptedOnWire) >= 2

\* C10: a handler that has not returned does not stop the read loop from reading
\* and acknowledging the next request.
C10_SlowHandlerDoesNotBlock ==
    (rdPc = "read" /\ \E k \in 1..Len(hstate) : hstate[k] = "running")
        => \A req \in NextRequests : ENABLED ReadRequest(req)

\* The first request's handler is still running, and the terminal frame of a later
\* request is already on the socket.
C10_Witness ==
    /\ Len(reqs) >= 2
    /\ hstate[1] = "running" /\ hstate[2] = "done"
    /\ reqs[1].request_id # reqs[2].request_id
    /\ \E i \in 1..Len(OnWire) :
        /\ IsTerminalPayload(OnWire[i])
        /\ PayloadId(OnWire[i]) = IdByte(reqs[2].request_id)

\* The terminal entries of the channel's history that answer request k.
TerminalsOf(k) == SelectSeq(enq, LAMBDA e : e.req = k /\ IsTerminal(e.msg))

UnknownFunc(k) == reqs[k].func \notin KnownFuncs

\* C11: on a connection whose writer has not failed, a request naming an unknown
\* function gets exactly one terminal frame, a failure carrying the request's id;
\* the step in which its handler fails leaves the read loop and every other
\* request as they were, and every other request is still acknowledged once and
\* completed once when its own handler returns.
C11_UnknownFunctionRecoverable ==
    /\ []((rdPc = "read" /\ \E k \in 1..Len(reqs) : UnknownFunc(k)) =>
            \A req \in NextRequests : ENABLED ReadRequest(req))
    /\ [](wrPc # "failed" =>
            \A k \in 1..Len(reqs) :
                /\ AcceptedFor(k, Len(enq)) = 1
                /\ TerminalFor(k, Len(enq)) = (IF hstate[k] = "done" THEN 1 ELSE 0)
                /\ (UnknownFunc(k) /\ hstate[k] = "done") =>
                      /\ TerminalsOf(k)[1].msg.request_id = reqs[k].request_id
                      /\ TerminalsOf(k)[1].msg.ok = FALSE
                      /\ TerminalsOf(k)[1].msg.error = "unknown function")
    /\ [][\A k \in 1..Len(reqs) :
            (UnknownFunc(k) /\ hstate[k] = "running" /\ hstate'[k] = "done") =>
                /\ rdPc' = rdPc /\ reqs' = reqs /\ wrPc' = wrPc
                /\ \A j \in 1..Len(reqs) : j # k => hstate'[j] = hstate[j]]_vars

\* A request naming an unknown function failed; a request read after that failure
\* was acknowledged and completed with a result, and both terminal frames are on
\* the socket.
C11_Witness ==
    /\ Len(reqs) >= 2
    /\ UnknownFunc(1) /\ ~UnknownFunc(2)
    /\ reqs[1].request_id # reqs[2].request_id
    /\ rdPc = "read" /\ wrPc = "recv" /\ outq = <<>>
    /\ Len(enq) = 4
    /\ enq[2] = Entry(resp_err(reqs[1].request_id, "unknown function"), 1)
    /\ enq[3] = Entry(resp_accepted(reqs[2].request_id), 2)
    /\ enq[4] = Entry(resp_ok(reqs[2].request_id, ResultOf(reqs[2].request_id)), 2)
    /\ wire = ConcatFrames(enq)

\* C12: a frame that cannot be read, or that is not a Request, ends the read loop:
\* the step sends nothing and decodes nothing, and from then on the loop reads no
\* frame and sends no Accepted.
C12_ServerTransportFailureFatal ==
    /\ [](rdRet # "none" => rdPc = "ended")
    /\ [][rdRet' # rdRet =>
            /\ rdRet = "none"
            /\ enq' = enq /\ outq' = outq /\ reqs' = reqs /\ hstate' = hstate
            /\ wire' = wire /\ wrPc' = wrPc]_vars
    /\ [][rdPc = "ended" =>
            /\ rdPc' = "ended" /\ rdRet' = rdRet /\ reqs' = reqs
            /\ Len(SelectSeq(enq', IsAcceptedEntry)) = Len(AcceptedEntries)]_vars

\* A request was served, then a frame that is not a Request arrived: the channel's
\* history holds the two frames of the request and nothing for the bad frame, and
\* the writer task has ended after writing both.
C12_Witness ==
    /\ rdRet = "malformed request"
    /\ rdPc = "ended"
    /\ Len(reqs) = 1 /\ Len(enq) = 2
    /\ wrPc = "stopped"
    /\ wire = ConcatFrames(enq)

\* The terminal frames the channel has taken.
TerminalEntries == SelectSeq(enq, LAMBDA e : IsTerminal(e.msg))

\* C19 (as claimed): every terminal frame enqueued is a Completed frame with the
\* request's id: with ok, a result and no error, or without ok, with an error and
\* no result.
C19_TerminalIsCompleted ==
    \A i \in 1..Len(TerminalEntries) :
        LET m == TerminalEntries[i].msg IN
        /\ m.status = "completed"
        /\ m.request_id = reqs[TerminalEntries[i].req].request_id
        /\ m.ok <=> m.result # Null
        /\ m.ok <=> m.error = Null

\* C19 (amended): the terminal frame of a request carries the request's id and is
\* either Completed with ok, the result and no error, or (unknown function,
\* rejected params, handler error) Error without ok, with the message and no
\* result; every Completed frame enqueued has ok, a result and no error.
C19_TerminalShape ==
    \A i \in 1..Len(TerminalEntries) :
        LET m == TerminalEntries[i].msg
            req == reqs[TerminalEntries[i].req]
        IN  /\ m.request_id = req.request_id
            /\ \/ /\ m.status = "completed" /\ m.ok
                  /\ m.result = ResultOf(req.request_id) /\ m.error = Null
                  /\ req.func \in KnownFuncs
               \/ /\ m.status = "error" /\ ~m.ok
                  /\ m.result = Null /\ m.error = ErrorOf(req.func)
            /\ m.status = "completed" =>
                  (m.ok /\ m.result # Null /\ m.error = Null)

\* One handler returned a result and another one failed: the channel took a
\* Completed frame for the first and an Error frame for the second.
C19_Witness ==
    \E i, j \in 1..Len(TerminalEntries) :
        /\ TerminalEntries[i].msg.status = "completed"
        /\ TerminalEntries[j].msg.status = "error"
        /\ TerminalEntries[i].req # TerminalEntries[j].req

\* ------------------------------------------------------------------ codec properties
\* C20 (as claimed): every read_frame that found a whole frame returned the
\* document that was given to the write_frame that wrote it.
C20_RoundTrip ==
    \A i \in 1..Len(cout) :
        cout[i].err # "io" => (i <= Len(cin) /\ cout[i] = Ok(cin[i]))

\* The bytes of the frames of the documents ds, written back to back.
RECURSIVE Written(_)
Written(ds) == IF ds = <<>> THEN <<>> ELSE WriteFrame(Head(ds)) \o Written(Tail(ds))

\* 4 + length bytes for each of the first k documents written.
RECURSIVE FrameSizes(_)
FrameSizes(k) == IF k = 0 THEN 0 ELSE FrameSizes(k - 1) + 4 + Len(to_vec(cin[k]))

\* C21 (as claimed): the i-th read_frame on a stream of frames written back to
\* back returns the i-th document written; after k calls exactly 4 + length
\* bytes of each of the first k frames are gone from the stream and the rest
\* is untouched; a call fails with an I/O error only on a stream that ended
\* inside a frame, and returns no payload then.
C21_OneFramePerCall ==
    /\ \A i \in 1..Len(cout) :
          /\ cout[i].err # "io" => (i <= Len(cin) /\ cout[i] = Ok(cin[i]))
          /\ cout[i].err = "io" => (ceof /\ ~cout[i].ok)
    /\ ~ceof => /\ Len(cout) <= Len(cin)
                /\ cstream = Rest(Written(cin), FrameSizes(Len(cout)))

\* C22 (as claimed): the frame write_frame emits for a document starts with
\* four bytes that are, read as a big-endian unsigned number, the count of the
\* payload bytes that follow them, whatever the size of the payload.
C22_PrefixIsPayloadLength ==
    \A i \in 1..Len(cin) :
        LET frame == WriteFrame(cin[i]) IN
        /\ Len(frame) >= 4
        /\ \A j \in 1..4 : frame[j] \in 0..255
        /\ GetU32(frame) = Len(frame) - 4

\* C23 (as claimed): every id in the registry is the id of a call() that has not
\* returned; a call that returned, whether on a failed write of its request or
\* on its terminal Response, has no entry.
C23_RegistryHoldsWaitingCalls ==
    /\ \A id \in DOMAIN pending : callPc[pending[id]] \notin Returned
    /\ \A c \in Calls : callPc[c] \in Returned => RequestId(c) \notin DOMAIN pending

\* The frames the channel accepted after handle_client returned.
LateEntries == SubSeq(enq, endedAt + 1, Len(enq))

AllHandlersDone == \A k \in 1..Len(hstate) : hstate[k] = "done"

\* C24: after the read loop has ended, a handler that finishes while the writer
\* task has not failed still puts its terminal frame at the back of the channel;
\* the socket holds the frames of the channel in the order they were sent; the
\* writer task ends only on a failed socket write, or once the read loop has
\* ended, every handler has finished and every frame sent is on the socket; and
\* once the read loop has ended the writer task does end.
C24_WriterOutlivesReadLoop ==
    /\ [][\A k \in 1..Len(reqs) :
            (rdPc = "ended" /\ hstate[k] = "running" /\ hstate'[k] = "done") =>
                /\ wrPc # "stopped"
                /\ wrPc # "failed" =>
                      /\ Len(enq') = Len(enq) + 1
                      /\ enq' = Append(enq, Last(enq'))
                      /\ outq' = Append(outq, Last(enq'))
                      /\ Last(enq').req = k
                      /\ IsTerminal(Last(enq').msg)
                      /\ Last(enq').msg.request_id = reqs[k].request_id]_vars
    /\ [](rdPc = "ended" =>
            /\ IsPrefix(wire, ConcatFrames(enq))
            /\ wrPc = "recv" =>
                  wire = ConcatFrames(SubSeq(enq, 1, Len(enq) - Len(outq))))
    /\ [](wrPc = "stopped" =>
            /\ rdPc = "ended" /\ AllHandlersDone
            /\ outq = <<>> /\ wrBuf = <<>>
            /\ wire = ConcatFrames(enq)
            /\ \A k \in 1..Len(reqs) : TerminalFor(k, Len(enq)) = 1)
    /\ [][(wrPc' # wrPc /\ wrPc' \in {"stopped", "failed"}) =>
            \/ wrPc' = "failed" /\ wrPc = "write"
            \/ wrPc' = "stopped" /\ rdPc = "ended" /\ AllHandlersDone]_vars
    /\ [](rdPc = "ended" => <>(wrPc \in {"stopped", "failed"}))

\* Two handlers were running when the read loop ended on an unreadable frame;
\* both have sent their terminal frame since, the second request's first, the
\* socket holds all four frames of the connection in the order sent, and the
\* writer task has ended.
C24_Witness ==
    /\ rdPc = "ended" /\ rdRet = "io or json"
    /\ Len(reqs) = 2 /\ endedAt = 2
    /\ Len(LateEntries) = 2
    /\ LateEntries[1].req = 2 /\ LateEntries[2].req = 1
    /\ \A i \in 1..2 : IsTerminal(LateEntries[i].msg)
    /\ wrPc = "stopped"
    /\ wire = ConcatFrames(enq)

====
